---- MODULE Spec2Model ----
(***************************************************************************)
(* A model of the user service: the user store, the GetUser / ListUsers /  *)
(* Health handlers, and the middleware chain assembled by setupRoutes.     *)
(*                                                                         *)
(* Two builds of the service are modelled, selected by `variant`:          *)
(*   "mem" : src/main.go (in-memory map guarded by a sync.RWMutex)         *)
(*   "db"  : src/cmd/server/main.go with internal/services, handlers and   *)
(*           middleware (database-backed, with request-id tagging)         *)
(***************************************************************************)
EXTENDS Integers, Sequences, FiniteSets, TLC

(***************************************************************************)
(* Bounds of the model.                                                    *)
(***************************************************************************)
\* longest id string enumerated exhaustively over Alphabet
MaxLen == 2
\* user ids that may be present in the store are 1..MaxId
MaxId == 2
\* handler invocations made by the unit harness in one behaviour
MaxCalls == 2

(***************************************************************************)
(* Strings are sequences of one-character strings.                         *)
(***************************************************************************)
DigitChars == <<"0", "1", "2", "3", "4", "5", "6", "7", "8", "9">>

Digits == {DigitChars[i] : i \in 1..10}

DigitVal(c) == (CHOOSE i \in 1..10 : DigitChars[i] = c) - 1

\* the characters id strings are built from: some digits, both signs, a
\* letter and a dot
Alphabet == {"0", "1", "2", "3", "-", "+", "a", "."}

RECURSIVE StringsUpTo(_)
StringsUpTo(n) ==
    IF n = 0 THEN {<<>>}
    ELSE LET shorter == StringsUpTo(n - 1)
         IN  shorter \cup {Append(s, c) : s \in {t \in shorter : Len(t) = n - 1}, c \in Alphabet}

\* decimal digits of math.MaxInt64 = 9223372036854775807
MaxInt64Digits ==
    <<"9","2","2","3","3","7","2","0","3","6","8","5","4","7","7","5","8","0","7">>

\* decimal digits of -math.MinInt64 = 9223372036854775808
MinInt64Digits ==
    <<"9","2","2","3","3","7","2","0","3","6","8","5","4","7","7","5","8","0","8">>

\* id strings around the limits of a 64-bit int, and one long string with
\* leading zeros whose value is small
LongStrs ==
    { MaxInt64Digits,
      MinInt64Digits,
      <<"-">> \o MinInt64Digits,
      <<"-">> \o SubSeq(MinInt64Digits, 1, 18) \o <<"9">>,
      <<"+">> \o MaxInt64Digits,
      [i \in 1..20 |-> "9"],
      [i \in 1..20 |-> IF i = 20 THEN "1" ELSE "0"] }

IdStrs == StringsUpTo(MaxLen) \cup LongStrs

(***************************************************************************)
(* strconv.Atoi.  A Go int is 64 bits wide; its value is kept as a sign    *)
(* and the decimal digits of its magnitude without leading zeros, because  *)
(* the values near the limits do not fit the 32-bit integers of TLC.       *)
(***************************************************************************)
IsSign(c) == c = "-" \/ c = "+"

\* the string with one leading sign removed
Unsigned(s) == IF Len(s) > 0 /\ IsSign(s[1]) THEN SubSeq(s, 2, Len(s)) ELSE s

\* syntax accepted by ParseInt(s, 10, 0): optional sign, one or more digits
IsIntLiteral(s) ==
    LET u == Unsigned(s)
    IN  Len(u) > 0 /\ \A i \in 1..Len(u) : u[i] \in Digits

RECURSIVE StripZeros(_)
StripZeros(u) ==
    IF Len(u) > 0 /\ u[1] = "0" THEN StripZeros(SubSeq(u, 2, Len(u))) ELSE u

\* a <= b for digit strings without leading zeros
RECURSIVE DigitsLeq(_, _)
DigitsLeq(a, b) ==
    IF Len(a) # Len(b) THEN Len(a) < Len(b)
    ELSE IF Len(a) = 0 THEN TRUE
    ELSE IF a[1] # b[1] THEN DigitVal(a[1]) < DigitVal(b[1])
    ELSE DigitsLeq(SubSeq(a, 2, Len(a)), SubSeq(b, 2, Len(b)))

\* the value fits an int: ParseInt reports ErrRange otherwise
InIntRange(s) ==
    LET mag == StripZeros(Unsigned(s))
    IN  IF Len(s) > 0 /\ s[1] = "-" THEN DigitsLeq(mag, MinInt64Digits)
        ELSE DigitsLeq(mag, MaxInt64Digits)

\* strconv.Itoa of a natural number
RECURSIVE Itoa(_)
Itoa(n) == IF n < 10 THEN <<DigitChars[n + 1]>> ELSE Append(Itoa(n \div 10), DigitChars[(n % 10) + 1])

\* the longest prefix of digits decides, the way C's atoi reads a number
AtoiPrefix(s) ==
    LET u == Unsigned(s)
        n == IF \E i \in 1..Len(u) : u[i] \notin Digits
             THEN (CHOOSE i \in 1..Len(u) : u[i] \notin Digits /\ \A j \in 1..(i - 1) : u[j] \in Digits) - 1
             ELSE Len(u)
        mag == StripZeros(SubSeq(u, 1, n))
    IN  IF n > 0 /\ InIntRange(SubSeq(u, 1, n))
        THEN [err |-> FALSE, neg |-> (s[1] = "-" /\ Len(mag) > 0), mag |-> mag]
        ELSE [err |-> TRUE, neg |-> FALSE, mag |-> <<>>]

\* a parser that takes digits only, no sign
AtoiRejectsSigned(s) ==
    IF IsIntLiteral(s) /\ InIntRange(s) /\ ~IsSign(s[1])
    THEN [err |-> FALSE, neg |-> FALSE, mag |-> StripZeros(s)]
    ELSE [err |-> TRUE, neg |-> FALSE, mag |-> <<>>]

\* strconv.Atoi: an optional sign and decimal digits, within the range of
\* a 64-bit int
Atoi(s) ==
    IF IsIntLiteral(s) /\ InIntRange(s)
    THEN LET mag == StripZeros(Unsigned(s))
         IN  [err |-> FALSE, neg |-> (s[1] = "-" /\ Len(mag) > 0), mag |-> mag]
    ELSE [err |-> TRUE, neg |-> FALSE, mag |-> <<>>]

RECURSIVE NatOf(_)
NatOf(mag) ==
    IF Len(mag) = 0 THEN 0
    ELSE 10 * NatOf(SubSeq(mag, 1, Len(mag) - 1)) + DigitVal(mag[Len(mag)])

\* the parsed int as a number; only ever applied to values of at most four
\* digits (see HasKey): the keys of the store are small
IntOf(v) == IF v.neg THEN 0 - NatOf(v.mag) ELSE NatOf(v.mag)

\* _, exists := users[id]
HasKey(store, v) == Len(v.mag) <= 4 /\ IntOf(v) \in DOMAIN store

(***************************************************************************)
(* models.ParseUserID: the empty string is reported as missing before      *)
(* Atoi is tried.                                                          *)
(***************************************************************************)
\* the parse without the test for the empty string
ParseUserIDWithoutEmptyCheck(idStr) ==
    LET v == Atoi(idStr)
    IN  IF v.err THEN [err |-> "id parameter is invalid", val |-> Atoi(<<"0">>)]
        ELSE [err |-> "", val |-> v]

ParseUserID(idStr) ==
    IF idStr = <<>> THEN [err |-> "id parameter is missing", val |-> Atoi(<<"0">>)]
    ELSE LET v == Atoi(idStr)
         IN  IF v.err THEN [err |-> "id parameter is invalid", val |-> Atoi(<<"0">>)]
             ELSE [err |-> "", val |-> v]

(***************************************************************************)
(* The user records.                                                       *)
(***************************************************************************)
SeedNames == <<"John Doe", "Jane Smith", "Bob Johnson", "Test User">>

\* an e-mail address is the sequence of its parts
SeedEmails == << <<"john", "@", "example.com">>, <<"jane", "@", "example.com">>,
                 <<"bob", "@", "example.com">>, <<"test", "@", "user.com">> >>

SeedUser(i) == [ID |-> i, Name |-> SeedNames[i], Email |-> SeedEmails[i]]

\* NewUserService: the map literal, scaled to ids 1..MaxId
SeedUsers == [i \in 1..MaxId |-> SeedUser(i)]

Restrict(f, S) == [x \in S |-> f[x]]

\* the populations a store can start with: any part of the seed data (the
\* tests build the service around a smaller map, the users table may be
\* empty)
Populations == {Restrict(SeedUsers, S) : S \in SUBSET (1..MaxId)}

Variants == {"mem", "db"}

(***************************************************************************)
(* State.                                                                  *)
(***************************************************************************)
VARIABLES
    variant,    \* which build is running
    users,      \* the user map (mem) or the rows of the users table (db), by id
    mu,         \* sync.RWMutex of the in-memory service: the slots holding it shared
    metrics,    \* the Prometheus collectors
    limiter,    \* the rate.Limiter shared by all requests
    now,        \* the clock, in ticks
    issued,     \* request ids generated so far
    reqs,       \* per slot: the request being served and its response so far
    calls,      \* requests started so far
    server,     \* the process: the main goroutine, the listener, the signals
    last,       \* the outcome of the last call of AddUser
    conn        \* the database connection: the slots with a call running on it

vars == <<variant, users, mu, metrics, limiter, now, issued, reqs, calls, server, last, conn>>

\* the goroutines serving requests
SlotOrder == <<"r1", "r2">>

Slots == {SlotOrder[i] : i \in 1..Len(SlotOrder)}

(***************************************************************************)
(* http.ResponseWriter.  hdr is the header map the handler chain edits; w  *)
(* is what went out on the wire: the first WriteHeader fixes the status    *)
(* and the headers, a Write before any WriteHeader sends 200.              *)
(***************************************************************************)
\* no header set; X-Request-ID is kept as the number of the id, 0 for none
NoHeaders ==
    [ContentType |-> "", NoSniff |-> "", AllowOrigin |-> "", AllowMethods |-> "",
     AllowHeaders |-> "", XRequestID |-> 0]

NoResponse == [wrote |-> FALSE, status |-> 0, sent |-> NoHeaders, body |-> <<>>]

NoUser == [ID |-> 0, Name |-> "", Email |-> <<>>]

Idle ==
    [pc |-> "idle", method |-> "", path |-> "", idStr |-> <<>>, panicAt |-> "none",
     chain |-> FALSE, depth |-> 0, hdr |-> NoHeaders, w |-> NoResponse,
     logStatus |-> 0, metStatus |-> 0, ctxID |-> 0,
     id |-> Atoi(<<"0">>), user |-> NoUser, exists |-> FALSE, list |-> <<>>,
     snap |-> <<>>, fault |-> "",
     reached |-> FALSE, lookups |-> 0, panicked |-> FALSE, recovered |-> FALSE,
     rejected |-> FALSE, aborted |-> FALSE,
     recorded |-> <<>>, logged |-> <<>>, entered |-> <<>>, ctx |-> ""]

\* a request as it enters the server (chain) or is handed to a handler by a
\* test (no chain): a fresh response recorder
NewRequest(method, path, idStr, panicAt, chain) ==
    [Idle EXCEPT !.pc = "new", !.method = method, !.path = path, !.idStr = idStr,
                 !.panicAt = panicAt, !.chain = chain, !.snap = users]

\* ResponseWriter.WriteHeader on the connection: only the first call counts
ConnWriteHeader(q, code) ==
    IF q.w.wrote THEN q
    ELSE [q EXCEPT !.w = [wrote |-> TRUE, status |-> code, sent |-> q.hdr, body |-> <<>>]]

\* responseWriterWrapper.WriteHeader and metricsResponseWriter.WriteHeader:
\* inside the chain every WriteHeader call passes both wrappers, each of
\* which stores the code and forwards the call
WriteHeader(q, code) ==
    LET q1 == IF q.chain THEN [q EXCEPT !.metStatus = code, !.logStatus = code] ELSE q
    IN  ConnWriteHeader(q1, code)

\* ResponseWriter.Write: the wrappers do not override it, so the implicit
\* WriteHeader(200) happens on the connection, past the wrappers
Write(q, chunk) ==
    LET q1 == ConnWriteHeader(q, 200)
    IN  [q1 EXCEPT !.w.body = Append(@, chunk)]

\* http.Error
Error(q, msg, code) ==
    LET q1 == [q EXCEPT !.hdr.ContentType = "text/plain; charset=utf-8",
                        !.hdr.NoSniff = "nosniff"]
    IN  Write(WriteHeader(q1, code), [kind |-> "text", text |-> msg])

\* w.Header().Set("Content-Type", "application/json")
SetJSON(q) == [q EXCEPT !.hdr.ContentType = "application/json"]

(***************************************************************************)
(* Metrics.                                                                *)
(***************************************************************************)
NoMetrics ==
    [requestsInFlight |-> 0, usersTotal |-> 0,
     userLookups |-> [found |-> 0, not_found |-> 0],
     errorRate |-> <<>>, rateLimitHits |-> 0, panicRecoveries |-> 0]

\* CounterVec.WithLabelValues(...).Inc() on a vector kept as a function from
\* label tuples to counts
IncVec(vec, labels) ==
    IF labels \in DOMAIN vec THEN [vec EXCEPT ![labels] = @ + 1]
    ELSE [l \in DOMAIN vec \cup {labels} |-> IF l = labels THEN 1 ELSE vec[l]]

VecAt(vec, labels) == IF labels \in DOMAIN vec THEN vec[labels] ELSE 0

\* a lookup counter that counts every lookup as found
RecordUserLookupAsFound(m, result) == [m EXCEPT !.userLookups.found = @ + 1]

RecordUserLookup(m, result) ==
    IF result = "found" THEN [m EXCEPT !.userLookups.found = @ + 1]
    ELSE [m EXCEPT !.userLookups.not_found = @ + 1]

RecordError(m, errorType, endpoint) ==
    [m EXCEPT !.errorRate = IncVec(@, <<errorType, endpoint>>)]

RecordRateLimitHit(m) == [m EXCEPT !.rateLimitHits = @ + 1]

RecordPanicRecovery(m) == [m EXCEPT !.panicRecoveries = @ + 1]

RecordRequestInFlight(m, delta) == [m EXCEPT !.requestsInFlight = @ + delta]


(***************************************************************************)
(* Route handlers.  A handler runs from its entry pc to "ret"; it is       *)
(* entered from the mux of the assembled server or called directly, the    *)
(* way the handler tests do.  panicAt makes the handler panic on entry or  *)
(* after it has written its response.                                      *)
(***************************************************************************)
HandlerPCs == {"GetUser", "ListUsers", "Health", "Metrics", "NotFound"}

\* ServeMux of setupRoutes: the registered patterns, NotFound otherwise
MuxHandler(path) ==
    CASE path = "/user" -> "GetUser"
      [] path = "/users" -> "ListUsers"
      [] path = "/health" -> "Health"
      [] path = "/metrics" -> "Metrics"
      [] OTHER -> "NotFound"

\* the handler returns, or panics now that its response is written
Return(q) ==
    [q EXCEPT !.pc = IF q.chain THEN "ret" ELSE "done",
              !.panicked = (q.panicAt = "written")]

SetReq(r, q) == reqs' = [reqs EXCEPT ![r] = q]

\* the handler panics before doing anything
PanicOnEntry(r) ==
    /\ reqs[r].pc \in HandlerPCs
    /\ reqs[r].panicAt = "entry"
    /\ SetReq(r, [reqs[r] EXCEPT !.pc = "ret", !.panicked = TRUE])
    /\ UNCHANGED <<conn, server, last, variant, users, mu, metrics, limiter, now, issued, calls>>

\* the text of an error of the database driver
DriverError == "driver: connection lost"

\* the encoding of a record whose id was never filled in
UserJSONWithoutID(u) == [kind |-> "user", id |-> 0, name |-> u.Name, email |-> u.Email]

\* json.NewEncoder(w).Encode(user)
UserJSON(u) == [kind |-> "user", id |-> u.ID, name |-> u.Name, email |-> u.Email]

(* UserService.GetUser of src/main.go, up to s.mu.RLock() *)
GetUserMem(r) ==
    LET q == reqs[r]
        v == Atoi(q.idStr)
    IN  /\ variant = "mem"
        /\ q.pc = "GetUser"
        /\ q.panicAt # "entry"
        /\ IF q.idStr = <<>>
           THEN /\ metrics' = RecordError(metrics, "missing_parameter", "get_user")
                /\ SetReq(r, Return(Error(q, "missing id parameter", 400)))
                /\ mu' = mu
           ELSE IF v.err
           THEN /\ metrics' = RecordError(metrics, "invalid_parameter", "get_user")
                /\ SetReq(r, Return(Error(q, "invalid id parameter", 400)))
                /\ mu' = mu
           ELSE /\ mu' = mu \cup {r}
                /\ SetReq(r, [q EXCEPT !.pc = "GetUser_read", !.id = v])
                /\ metrics' = metrics
        /\ UNCHANGED <<conn, server, last, variant, users, limiter, now, issued, calls>>

\* the lookup with its result kept in a field all calls share
GetUserMemReadShared(r) ==
    LET q == reqs[r]
        found == HasKey(users, q.id)
        u == IF found THEN users[IntOf(q.id)] ELSE NoUser
    IN  /\ q.pc = "GetUser_read"
        /\ reqs' = [s \in Slots |->
                      IF s = r
                      THEN [q EXCEPT !.pc = "GetUser_unlock", !.snap = users,
                                     !.exists = found, !.user = u, !.lookups = @ + 1]
                      ELSE IF reqs[s].pc = "GetUser_unlock"
                      THEN [reqs[s] EXCEPT !.exists = found, !.user = u]
                      ELSE reqs[s]]
        /\ UNCHANGED <<conn, server, last, variant, users, mu, metrics, limiter, now, issued, calls>>

(* user, exists := s.users[id] *)
GetUserMemRead(r) ==
    LET q == reqs[r]
        found == HasKey(users, q.id)
    IN  /\ q.pc = "GetUser_read"
        /\ SetReq(r, [q EXCEPT !.pc = "GetUser_unlock",
                               !.snap = users,
                               !.exists = found,
                               !.user = IF found THEN users[IntOf(q.id)] ELSE NoUser,
                               !.lookups = @ + 1])
        /\ UNCHANGED <<conn, server, last, variant, users, mu, metrics, limiter, now, issued, calls>>

(* s.mu.RUnlock() and the rest of UserService.GetUser *)
GetUserMemRespond(r) ==
    LET q == reqs[r]
    IN  /\ q.pc = "GetUser_unlock"
        /\ mu' = mu \ {r}
        /\ IF ~q.exists
           THEN /\ metrics' = RecordUserLookup(metrics, "not_found")
                /\ SetReq(r, Return(Error(q, "user not found", 404)))
           ELSE /\ metrics' = RecordUserLookup(metrics, "found")
                /\ SetReq(r, Return(Write(SetJSON(q), UserJSON(q.user))))
        /\ UNCHANGED <<conn, server, last, variant, users, limiter, now, issued, calls>>

\* what QueryRow(...).Scan can come back with
DBOutcomes == {"ok", "fail"}

(* UserHandler.GetUser of the handlers package with UserService.GetUser of
   internal/services *)
GetUserDB(r) ==
    LET q == reqs[r]
        p == ParseUserID(q.idStr)
        found == HasKey(users, p.val)
        q1 == [q EXCEPT !.id = p.val, !.lookups = @ + 1, !.snap = users]
    IN  /\ variant = "db"
        /\ q.pc = "GetUser"
        /\ q.panicAt # "entry"
        /\ IF p.err # ""
           THEN /\ SetReq(r, Return(Error(q, p.err, 400)))
                /\ metrics' = metrics
           ELSE \E outcome \in DBOutcomes :
                  IF outcome = "fail"
                  THEN /\ SetReq(r, Return(Error([q1 EXCEPT !.fault = "fail"],
                                                 DriverError, 404)))
                       /\ metrics' = metrics
                  ELSE IF ~found
                  THEN /\ metrics' = RecordUserLookup(metrics, "not_found")
                       /\ SetReq(r, Return(Error(q1, "user not found", 404)))
                  ELSE /\ metrics' = RecordUserLookup(metrics, "found")
                       /\ SetReq(r, Return(Write(SetJSON([q1 EXCEPT !.exists = TRUE,
                                                                    !.user = users[IntOf(p.val)]]),
                                                 UserJSON(users[IntOf(p.val)]))))
        /\ UNCHANGED <<conn, server, last, variant, users, mu, limiter, now, issued, calls>>


\* the orders in which the elements of S can be enumerated: a Go map is
\* ranged over, and a SELECT without ORDER BY returns its rows, in any order
Orders(S) ==
    {o \in [1..Cardinality(S) -> S] : \A i, j \in 1..Cardinality(S) : o[i] = o[j] => i = j}

\* encoding/json of a []User: a nil slice is written as null, any other
\* slice as an array
SliceJSON(isNil, items) == [null |-> isNil, items |-> IF isNil THEN <<>> ELSE items]

\* json.NewEncoder(w).Encode(map{"users": users, "total": len(users)})
ListJSON(isNil, items) ==
    [kind |-> "list", users |-> SliceJSON(isNil, items), total |-> Len(items)]

(* UserService.ListUsers of src/main.go: the copy made under s.mu.RLock();
   users := make([]User, 0, len(s.users)) is never nil *)
ListUsersMem(r) ==
    LET q == reqs[r]
    IN  /\ variant = "mem"
        /\ q.pc = "ListUsers"
        /\ q.panicAt # "entry"
        /\ mu' = mu \cup {r}
        /\ \E o \in Orders(DOMAIN users) :
             SetReq(r, [q EXCEPT !.pc = "ListUsers_unlock",
                                 !.lookups = @ + 1,
                                 !.snap = users,
                                 !.list = [i \in 1..Len(o) |-> users[o[i]]]])
        /\ UNCHANGED <<conn, server, last, variant, users, metrics, limiter, now, issued, calls>>

(* s.mu.RUnlock() and the rest of UserService.ListUsers *)
ListUsersMemRespond(r) ==
    LET q == reqs[r]
    IN  /\ q.pc = "ListUsers_unlock"
        /\ mu' = mu \ {r}
        /\ SetReq(r, Return(Write(SetJSON(q), ListJSON(FALSE, q.list))))
        /\ UNCHANGED <<conn, server, last, variant, users, metrics, limiter, now, issued, calls>>

\* how reading the result set of ListUsers can end after `got` rows: all
\* rows read, rows.Scan fails on the next row, or rows.Next returns false
\* because the connection failed
RowsEndings == {"complete", "scan_error", "next_error"}

(* UserHandler.ListUsers with UserService.ListUsers of internal/services:
   rows.Err() is not consulted after the loop, and var users []models.User
   stays nil when no row is appended *)
ListUsersDB(r) ==
    LET q == reqs[r]
        n == Cardinality(DOMAIN users)
        q1 == [q EXCEPT !.lookups = @ + 1, !.snap = users]
    IN  /\ variant = "db"
        /\ q.pc = "ListUsers"
        /\ q.panicAt # "entry"
        /\ \E outcome \in DBOutcomes, o \in Orders(DOMAIN users), got \in 0..n,
              ending \in RowsEndings :
             /\ ending = "complete" <=> got = n
             /\ LET items == [i \in 1..got |-> users[o[i]]]
                    q2 == [q1 EXCEPT !.list = items,
                                     !.fault = IF outcome = "fail" THEN "fail"
                                               ELSE IF ending = "complete" THEN ""
                                               ELSE ending]
                IN  IF outcome = "fail" \/ ending = "scan_error"
                    THEN SetReq(r, Return(Error(q2, "failed to list users", 500)))
                    ELSE SetReq(r, Return(Write(SetJSON(q2), ListJSON(got = 0, items))))
        /\ UNCHANGED <<conn, server, last, variant, users, mu, metrics, limiter, now, issued, calls>>

\* the highest id taken for the number of records
GetUsersCountAsMaxID(store) ==
    IF DOMAIN store = {} THEN 0
    ELSE CHOOSE x \in DOMAIN store : \A y \in DOMAIN store : y <= x

\* len(s.users), SELECT COUNT(*) FROM users
GetUsersCount(store) == Cardinality(DOMAIN store)

\* json.NewEncoder(w).Encode(response) of the health handlers; the time
\* stamp is left out
HealthJSON(count) ==
    [kind |-> "health", status |-> "healthy", service |-> "user-service",
     users_count |-> count]

(* UserService.HealthCheck of src/main.go: len(s.users) is read without
   taking s.mu *)
HealthMem(r) ==
    LET q == reqs[r]
    IN  /\ variant = "mem"
        /\ q.pc = "Health"
        /\ q.panicAt # "entry"
        /\ SetReq(r, Return(Write(SetJSON([q EXCEPT !.lookups = @ + 1, !.snap = users]),
                                  HealthJSON(GetUsersCount(users)))))
        /\ UNCHANGED <<conn, server, last, variant, users, mu, metrics, limiter, now, issued, calls>>

(* HealthHandler.Health of internal/handlers/health.go with
   UserService.GetUsersCount of internal/services *)
HealthDB(r) ==
    LET q == reqs[r]
        q1 == SetJSON([q EXCEPT !.lookups = @ + 1, !.snap = users])
    IN  /\ variant = "db"
        /\ q.pc = "Health"
        /\ q.panicAt # "entry"
        /\ \E outcome \in DBOutcomes :
             IF outcome = "fail"
             THEN SetReq(r, Return(Error([q1 EXCEPT !.fault = "fail"],
                                         "Failed to get users count", 500)))
             ELSE SetReq(r, Return(Write(q1, HealthJSON(GetUsersCount(users)))))
        /\ UNCHANGED <<conn, server, last, variant, users, mu, metrics, limiter, now, issued, calls>>

(* promhttp.Handler(): the exposition of the registry *)
MetricsHandler(r) ==
    LET q == reqs[r]
    IN  /\ q.pc = "Metrics"
        /\ q.panicAt # "entry"
        /\ SetReq(r, Return(Write([q EXCEPT !.hdr.ContentType = "text/plain; version=0.0.4"],
                                  [kind |-> "metrics"])))
        /\ UNCHANGED <<conn, server, last, variant, users, mu, metrics, limiter, now, issued, calls>>

(* http.NotFound, which the inner ServeMux answers for unregistered paths *)
NotFound(r) ==
    LET q == reqs[r]
    IN  /\ q.pc = "NotFound"
        /\ q.panicAt # "entry"
        /\ SetReq(r, Return(Error(q, "404 page not found", 404)))
        /\ UNCHANGED <<conn, server, last, variant, users, mu, metrics, limiter, now, issued, calls>>

\* the handlers of the service
ServiceHandler(r) ==
    \/ GetUserMem(r) \/ GetUserMemRead(r) \/ GetUserMemRespond(r)
    \/ GetUserDB(r)
    \/ ListUsersMem(r) \/ ListUsersMemRespond(r)
    \/ ListUsersDB(r)
    \/ HealthMem(r)
    \/ HealthDB(r)

(***************************************************************************)
(* AddUser of internal/services: validation, then one INSERT.  It has no   *)
(* route; the service tests call it.                                       *)
(***************************************************************************)
\* strings.Contains(u.Email, "@")
ContainsAt(email) == \E i \in 1..Len(email) : email[i] = "@"

\* User.Validate: "" when the record is valid
\* a validation that does not look for the "@"
ValidateWithoutAtCheck(u) ==
    IF u.Name = "" THEN "name cannot be empty"
    ELSE IF u.Email = <<>> THEN "email cannot be empty"
    ELSE ""

Validate(u) ==
    IF u.Name = "" THEN "name cannot be empty"
    ELSE IF u.Email = <<>> THEN "email cannot be empty"
    ELSE IF ~ContainsAt(u.Email) THEN "email must contain @"
    ELSE ""

\* the records AddUser is called with
NewUsers ==
    { [ID |-> 0, Name |-> "Test User", Email |-> <<"test", "@", "user.com">>],
      [ID |-> 0, Name |-> "", Email |-> <<"invalid-email">>],
      [ID |-> 0, Name |-> "Test User", Email |-> <<"invalid-email">>],
      [ID |-> 0, Name |-> "Test User", Email |-> <<>>] }

Max(S) == CHOOSE x \in S : \A y \in S : y <= x

\* the id the table's serial column gives the next row
NextSerial(rows) == 1 + Max(DOMAIN rows \cup {MaxId})

\* no call of AddUser made yet, or forgotten
NoCall == [op |-> "", arg |-> NoUser, err |-> "", exec |-> FALSE]

\* UserService.AddUser of internal/services: user.Validate(), then
\* s.db.Exec of the INSERT; exec tells whether the INSERT was issued
\* an AddUser that inserts without validating
AddUserWithoutValidation(u) ==
    /\ variant = "db"
    /\ users' = [i \in DOMAIN users \cup {NextSerial(users)} |->
                   IF i \in DOMAIN users THEN users[i] ELSE [u EXCEPT !.ID = i]]
    /\ last' = [op |-> "AddUser", arg |-> u, err |-> "", exec |-> TRUE]
    /\ UNCHANGED <<conn, server, variant, mu, metrics, limiter, now, issued, reqs>>

AddUser(u) ==
    /\ variant = "db"
    /\ IF Validate(u) # ""
       THEN /\ users' = users
            /\ last' = [op |-> "AddUser", arg |-> u, err |-> Validate(u), exec |-> FALSE]
       ELSE \E outcome \in DBOutcomes :
              IF outcome = "ok"
              THEN /\ users' = [i \in DOMAIN users \cup {NextSerial(users)} |->
                                  IF i \in DOMAIN users THEN users[i]
                                  ELSE [u EXCEPT !.ID = NextSerial(users)]]
                   /\ last' = [op |-> "AddUser", arg |-> u, err |-> "", exec |-> TRUE]
              ELSE /\ users' = users
                   /\ last' = [op |-> "AddUser", arg |-> u, err |-> DriverError, exec |-> TRUE]
    /\ UNCHANGED <<conn, server, variant, mu, metrics, limiter, now, issued, reqs>>

(***************************************************************************)
(* The rate limiter (golang.org/x/time/rate).  One token is worth          *)
(* TicksPerToken ticks of refill; tokens are counted in ticks' worth.      *)
(***************************************************************************)
\* burst size of the bucket, in tokens
Burst == 1
\* ticks of the clock it takes to refill one token
TicksPerToken == 2
\* the clock stops here
MaxTime == 2

\* config.GetRateLimiter / rate.NewLimiter: the bucket starts full
NewLimiter == [tokens |-> Burst * TicksPerToken, last |-> 0]

Min(a, b) == IF a <= b THEN a ELSE b

\* the tokens in the bucket at time t: the refill is computed when asked for
TokensAt(lim, t) == Min(Burst * TicksPerToken, lim.tokens + (t - lim.last))

\* a bucket that hands out a token it does not have
AllowOverdraft(lim, t) ==
    [ok |-> TokensAt(lim, t) >= 0,
     lim |-> [tokens |-> TokensAt(lim, t) - TicksPerToken, last |-> t]]

\* limiter.Allow(): takes one token if there is one; a refusal leaves the
\* bucket as it was
Allow(lim, t) ==
    IF TokensAt(lim, t) >= TicksPerToken
    THEN [ok |-> TRUE, lim |-> [tokens |-> TokensAt(lim, t) - TicksPerToken, last |-> t]]
    ELSE [ok |-> FALSE, lim |-> lim]

(***************************************************************************)
(* The process: func main.  The main goroutine configures the server,      *)
(* starts the listener goroutine, registers for SIGINT and SIGTERM, waits  *)
(* for one of them and calls server.Shutdown with a deadline; the listener *)
(* goroutine runs server.ListenAndServe and exits the process when that    *)
(* fails.                                                                  *)
(***************************************************************************)
\* ticks of the shutdown context's timeout (30 * time.Second)
ShutdownDeadline == 2

Signals == {"SIGINT", "SIGTERM"}

\* the process as main is entered
Booting ==
    [main |-> "start", listener |-> "none", notify |-> FALSE, quit |-> "",
     inShutdown |-> FALSE, elapsed |-> 0, busy |-> FALSE, log |-> "", exit |-> "",
     path |-> <<"Starting">>]

\* the lifecycle state the process is in
Life(sv) ==
    IF sv.exit # "" THEN "Stopped"
    ELSE IF sv.inShutdown THEN "ShuttingDown"
    ELSE IF sv.listener = "serving" THEN "Listening"
    ELSE "Starting"

\* the lifecycle states visited so far, in order
Visit(sv) ==
    IF sv.path[Len(sv.path)] = Life(sv) THEN sv
    ELSE [sv EXCEPT !.path = Append(@, Life(sv))]

\* the process with the listener accepting and main waiting for a signal
Serving ==
    Visit([Booting EXCEPT !.main = "waiting", !.listener = "serving", !.notify = TRUE])

Running == server.exit = ""

InFlight == {r \in Slots : reqs[r].pc = "inflight"}

\* main up to the configured http.Server; the database build connects
\* first and exits with status 1 when that fails
MainStart ==
    /\ Running
    /\ server.main = "start"
    /\ \E outcome \in DBOutcomes :
         /\ variant = "mem" => outcome = "ok"
         /\ server' = Visit(IF outcome = "ok" THEN [server EXCEPT !.main = "configured"]
                            ELSE [server EXCEPT !.main = "exited", !.exit = "exit1"])
    /\ UNCHANGED <<conn, last, variant, users, mu, metrics, limiter, now, issued, reqs, calls>>

\* go func() { ... server.ListenAndServe() ... }()
MainSpawn ==
    /\ Running
    /\ server.main = "configured"
    /\ server' = [server EXCEPT !.main = "spawned", !.listener = "spawned"]
    /\ UNCHANGED <<conn, last, variant, users, mu, metrics, limiter, now, issued, reqs, calls>>

\* signal.Notify(quit, syscall.SIGINT, syscall.SIGTERM)
MainNotify ==
    /\ Running
    /\ server.main = "spawned"
    /\ server' = [server EXCEPT !.main = "waiting", !.notify = TRUE]
    /\ UNCHANGED <<conn, last, variant, users, mu, metrics, limiter, now, issued, reqs, calls>>

\* a listener that starts accepting although Shutdown was called
ListenerBindAfterShutdown ==
    /\ Running
    /\ server.listener = "spawned"
    /\ \E outcome \in {"ok", "fail"} :
         server' = Visit(IF outcome = "ok"
                         THEN [server EXCEPT !.listener = "serving", !.inShutdown = FALSE]
                         ELSE [server EXCEPT !.listener = "failed", !.exit = "exit1"])
    /\ UNCHANGED <<conn, last, variant, users, mu, metrics, limiter, now, issued, reqs, calls>>

\* server.ListenAndServe in the listener goroutine: ErrServerClosed when
\* Shutdown was already called, otherwise the listener is bound and
\* accepts, or binding fails and the goroutine exits the process with
\* status 1
ListenerBind ==
    /\ Running
    /\ server.listener = "spawned"
    /\ IF server.inShutdown
       THEN server' = [server EXCEPT !.listener = "closed"]
       ELSE \E outcome \in {"ok", "fail"} :
              server' = Visit(IF outcome = "ok" THEN [server EXCEPT !.listener = "serving"]
                              ELSE [server EXCEPT !.listener = "failed", !.exit = "exit1"])
    /\ UNCHANGED <<conn, last, variant, users, mu, metrics, limiter, now, issued, reqs, calls>>

\* SIGINT or SIGTERM is sent to the process: before signal.Notify it
\* terminates the process, afterwards it is put into the quit channel,
\* which holds one signal
Signal ==
    /\ Running
    /\ \E sig \in Signals :
         server' = Visit(IF ~server.notify THEN [server EXCEPT !.exit = "killed"]
                         ELSE IF server.quit = "" THEN [server EXCEPT !.quit = sig]
                         ELSE server)
    /\ server' # server
    /\ UNCHANGED <<conn, last, variant, users, mu, metrics, limiter, now, issued, reqs, calls>>

\* sig := <-quit and the call of server.Shutdown(ctx): the listener is
\* closed and the connections are polled for the first time
MainReceive ==
    /\ Running
    /\ server.main = "waiting"
    /\ server.quit # ""
    /\ server' = Visit([server EXCEPT !.main = "shutdown", !.quit = "",
                                      !.inShutdown = TRUE, !.elapsed = 0,
                                      !.busy = (InFlight # {}),
                                      !.listener = IF @ = "serving" THEN "closed" ELSE @])
    /\ UNCHANGED <<conn, last, variant, users, mu, metrics, limiter, now, issued, reqs, calls>>

\* server.Shutdown waits: the poll timer fires and the connections are
\* polled again
ShutdownTick ==
    /\ Running
    /\ server.main = "shutdown"
    /\ server.elapsed < ShutdownDeadline
    /\ server' = [server EXCEPT !.elapsed = @ + 1, !.busy = (InFlight # {})]
    /\ UNCHANGED <<conn, last, variant, users, mu, metrics, limiter, now, issued, reqs, calls>>

\* a Shutdown that has no deadline
ShutdownReturnWithoutDeadline ==
    /\ Running
    /\ server.main = "shutdown"
    /\ InFlight = {}
    /\ server' = Visit([server EXCEPT !.main = "exited", !.log = "complete",
                                      !.exit = "returned"])
    /\ UNCHANGED <<conn, last, variant, users, mu, metrics, limiter, now, issued, reqs, calls>>

\* server.Shutdown returns, nil when every connection is idle and ctx.Err()
\* when the deadline passed after a poll that found one busy; main logs
\* which and returns, which ends the process
ShutdownReturn ==
    /\ Running
    /\ server.main = "shutdown"
    /\ \/ /\ InFlight = {}
          /\ server' = Visit([server EXCEPT !.main = "exited", !.log = "complete",
                                            !.exit = "returned"])
       \/ /\ server.elapsed = ShutdownDeadline
          /\ server.busy
          /\ server' = Visit([server EXCEPT !.main = "exited", !.log = "forced",
                                            !.exit = "returned"])
    /\ UNCHANGED <<conn, last, variant, users, mu, metrics, limiter, now, issued, reqs, calls>>

\* the listener accepts a connection and a request is being served on it
ConnServe(r) ==
    /\ Running
    /\ server.listener = "serving"
    /\ reqs[r].pc = "idle"
    /\ SetReq(r, [NewRequest("GET", "/health", <<>>, "none", TRUE) EXCEPT !.pc = "inflight"])
    /\ UNCHANGED <<conn, server, last, variant, users, mu, metrics, limiter, now, issued, calls>>

\* the request is answered and its connection becomes idle
ConnDone(r) ==
    /\ Running
    /\ reqs[r].pc = "inflight"
    /\ SetReq(r, [reqs[r] EXCEPT !.pc = "done"])
    /\ UNCHANGED <<conn, server, last, variant, users, mu, metrics, limiter, now, issued, calls>>

(***************************************************************************)
(* The handler tests: one handler is called at a time, directly, with a    *)
(* fresh recorder, and AddUser is called between the requests.             *)
(***************************************************************************)
UnitPaths == {"/user", "/users", "/health"}

UnitCall(r) ==
    /\ r = SlotOrder[1]
    /\ reqs[r].pc = "idle"
    /\ calls < MaxCalls
    /\ calls' = calls + 1
    /\ \E path \in UnitPaths, idStr \in IdStrs :
         /\ path # "/user" => idStr = <<>>
         /\ SetReq(r, [NewRequest("GET", path, idStr, "none", FALSE)
                         EXCEPT !.pc = MuxHandler(path), !.reached = TRUE])
    /\ last' = NoCall
    /\ UNCHANGED <<conn, server, variant, users, mu, metrics, limiter, now, issued>>

\* the test is done with the recorder of the call
UnitDiscard(r) ==
    /\ reqs[r].pc = "done"
    /\ ~reqs[r].chain
    /\ SetReq(r, Idle)
    /\ UNCHANGED <<conn, server, last, variant, users, mu, metrics, limiter, now, issued, calls>>

UnitAddUser ==
    /\ \A r \in Slots : reqs[r].pc \in {"idle", "done"}
    /\ calls < MaxCalls
    /\ calls' = calls + 1
    /\ \E u \in NewUsers : AddUser(u)

\* NewUserService of src/main.go sets the users_total gauge
InitMetrics(v, store) ==
    [NoMetrics EXCEPT !.usersTotal = IF v = "mem" THEN Cardinality(DOMAIN store) ELSE 0]

InitUnit ==
    /\ variant \in Variants
    /\ users \in Populations
    /\ mu = {}
    /\ metrics = InitMetrics(variant, users)
    /\ limiter = NewLimiter
    /\ now = 0
    /\ issued = 0
    /\ reqs = [r \in Slots |-> Idle]
    /\ calls = 0
    /\ server = Serving
    /\ last = NoCall
    /\ conn = {}

NextUnit ==
    \/ \E r \in Slots : UnitCall(r) \/ ServiceHandler(r) \/ UnitDiscard(r)
    \/ UnitAddUser

SpecUnit == InitUnit /\ [][NextUnit]_vars

(***************************************************************************)
(* The middleware chain of setupRoutes.  A layer is entered on the way in  *)
(* and left on the way out; c = [q, m, lim, ids] carries the request, the  *)
(* metrics, the limiter and the number of request ids issued.              *)
(***************************************************************************)
\* the middleware in the order setupRoutes wraps it around the mux: each
\* wraps everything before it
WrapOrder(v) ==
    IF v = "db"
    THEN <<"RequestID", "Recovery", "CORS", "RateLimit", "Metrics", "Logging">>
    ELSE <<"Recovery", "CORS", "RateLimit", "Metrics", "Logging">>

\* the layers from the outermost to the innermost
Chain(v) == [k \in 1..Len(WrapOrder(v)) |-> WrapOrder(v)[Len(WrapOrder(v)) + 1 - k]]

\* Access-Control-Allow-Headers of the two CORS middlewares
AllowHeadersOf(v) ==
    IF v = "db" THEN "Content-Type, Authorization, X-Request-ID"
    ELSE "Content-Type, Authorization"

Proceed(c) == [c |-> c, next |-> TRUE]

ShortCircuit(c) == [c |-> c, next |-> FALSE]

\* Logging, up to next.ServeHTTP
LoggingIn(c) == Proceed([c EXCEPT !.q.logStatus = 200])

\* a Metrics that records and does not call next.ServeHTTP
MetricsInWithoutNext(c) ==
    ShortCircuit([c EXCEPT !.m = RecordRequestInFlight(@, 1), !.q.metStatus = 200])

\* Metrics, up to next.ServeHTTP
MetricsIn(c) ==
    Proceed([c EXCEPT !.m = RecordRequestInFlight(@, 1), !.q.metStatus = 200])

\* a RateLimit that lets requests for /metrics pass without a token
RateLimitInExemptMetrics(c) ==
    LET a == Allow(c.lim, now)
    IN  IF c.q.path = "/metrics" THEN Proceed(c)
        ELSE IF ~a.ok
        THEN ShortCircuit([c EXCEPT !.m = RecordRateLimitHit(@),
                                    !.q = [Error(c.q, "rate limit exceeded", 429)
                                             EXCEPT !.rejected = TRUE]])
        ELSE Proceed([c EXCEPT !.lim = a.lim])

\* RateLimit
RateLimitIn(c) ==
    LET a == Allow(c.lim, now)
    IN  IF ~a.ok
        THEN ShortCircuit([c EXCEPT !.m = RecordRateLimitHit(@),
                                    !.q = [Error(c.q, "rate limit exceeded", 429)
                                             EXCEPT !.rejected = TRUE]])
        ELSE Proceed([c EXCEPT !.lim = a.lim])

\* CORS without the answer to the preflight request
CORSInNoPreflight(c) ==
    Proceed([c EXCEPT !.q.hdr.AllowOrigin = "*",
                      !.q.hdr.AllowMethods = "GET, POST, PUT, DELETE, OPTIONS",
                      !.q.hdr.AllowHeaders = AllowHeadersOf(variant)])

\* CORS
CORSIn(c) ==
    LET q1 == [c.q EXCEPT !.hdr.AllowOrigin = "*",
                          !.hdr.AllowMethods = "GET, POST, PUT, DELETE, OPTIONS",
                          !.hdr.AllowHeaders = AllowHeadersOf(variant)]
    IN  IF q1.method = "OPTIONS"
        THEN ShortCircuit([c EXCEPT !.q = WriteHeader(q1, 200)])
        ELSE Proceed([c EXCEPT !.q = q1])

\* Recovery, up to next.ServeHTTP: the deferred function is registered
RecoveryIn(c) == Proceed(c)

\* RequestID: uuid.New() is the next id never issued before
RequestIDIn(c) ==
    Proceed([c EXCEPT !.ids = @ + 1,
                      !.q.hdr.XRequestID = c.ids + 1,
                      !.q.ctxID = c.ids + 1])

LayerIn(layer, c) ==
    CASE layer = "Logging" -> LoggingIn(c)
      [] layer = "Metrics" -> MetricsIn(c)
      [] layer = "RateLimit" -> RateLimitIn(c)
      [] layer = "CORS" -> CORSIn(c)
      [] layer = "Recovery" -> RecoveryIn(c)
      [] layer = "RequestID" -> RequestIDIn(c)

\* the request goes down the chain from layer k; depth is the number of
\* layers that are waiting for next.ServeHTTP to return
RECURSIVE Descend(_, _, _)
Descend(chain, k, c) ==
    IF k > Len(chain)
    THEN [c EXCEPT !.q.pc = MuxHandler(c.q.path), !.q.reached = TRUE,
                   !.q.depth = Len(chain)]
    ELSE LET res == LayerIn(chain[k], [c EXCEPT !.q.entered = Append(@, chain[k])])
         IN  IF res.next THEN Descend(chain, k + 1, res.c)
             ELSE [res.c EXCEPT !.q.pc = "ret", !.q.depth = k - 1]

\* a panic is passing through the layer
Panicking(q) == q.panicked /\ ~q.recovered

\* r.Context().Value(RequestIDKey) as layer k sees it: the value is in the
\* context of the request RequestID passes on, which only inner layers get
RequestIDSeenAt(chain, k, q) ==
    IF \E j \in 1..(k - 1) : chain[j] = "RequestID" THEN q.ctxID ELSE 0

\* Recovery whose deferred function leaves the error counter alone
RecoveryOutWithoutErrorCount(c) ==
    IF Panicking(c.q)
    THEN [c EXCEPT !.m = RecordPanicRecovery(@),
                   !.q = [Error(c.q, "internal server error", 500)
                            EXCEPT !.recovered = TRUE]]
    ELSE c

\* Recovery: the deferred function
RecoveryOut(c) ==
    IF Panicking(c.q)
    THEN [c EXCEPT !.m = RecordError(RecordPanicRecovery(@), "panic", c.q.path),
                   !.q = [Error(c.q, "internal server error", 500)
                            EXCEPT !.recovered = TRUE]]
    ELSE c

\* a Metrics that never calls RecordRequestInFlight(-1)
MetricsOutWithoutRelease(c) ==
    IF Panicking(c.q) THEN c
    ELSE [c EXCEPT !.q.recorded = <<c.q.method, c.q.path, c.q.metStatus>>]

\* Metrics, after next.ServeHTTP: RecordRequest, skipped by a panic, and the
\* deferred RecordRequestInFlight(-1)
MetricsOut(c) ==
    LET c1 == IF Panicking(c.q) THEN c
              ELSE [c EXCEPT !.q.recorded = <<c.q.method, c.q.path, c.q.metStatus>>]
    IN  [c1 EXCEPT !.m = RecordRequestInFlight(@, -1)]

\* Logging, after next.ServeHTTP
LoggingOut(chain, k, c) ==
    IF Panicking(c.q) THEN c
    ELSE [c EXCEPT !.q.logged = <<c.q.method, c.q.path, c.q.logStatus,
                                  RequestIDSeenAt(chain, k, c.q)>>]

LayerOut(chain, k, c) ==
    CASE chain[k] = "Logging" -> LoggingOut(chain, k, c)
      [] chain[k] = "Metrics" -> MetricsOut(c)
      [] chain[k] = "Recovery" -> RecoveryOut(c)
      [] OTHER -> c

\* next.ServeHTTP returns, or panics, to layer k and on to the layers
\* around it; a panic no layer recovers ends in the server's own recover,
\* which drops the connection
RECURSIVE Ascend(_, _, _)
Ascend(chain, k, c) ==
    IF k = 0
    THEN [c EXCEPT !.q.pc = "done", !.q.depth = 0, !.q.aborted = Panicking(c.q)]
    ELSE Ascend(chain, k - 1, LayerOut(chain, k, c))

(***************************************************************************)
(* The assembled server.                                                   *)
(***************************************************************************)
Methods == {"GET", "OPTIONS"}

Paths == {"/user", "/users", "/health", "/metrics", "/nope"}

PanicPoints == {"none", "entry", "written"}

\* the ids requests ask for
RequestIdStrs == {<<>>} \cup {Itoa(i) : i \in 1..MaxId}

\* the connections before r in SlotOrder
Before(r) == {SlotOrder[j] : j \in {j \in 1..Len(SlotOrder) : \E i \in 1..Len(SlotOrder) : SlotOrder[i] = r /\ j < i}}

\* a request arrives on connection r and goes down the chain, to its
\* handler or to the layer that answers it; the connections are taken in
\* the order of SlotOrder, one request each
Arrive(r) ==
    /\ reqs[r].pc = "idle"
    /\ \A s \in Before(r) : reqs[s].pc # "idle"
    /\ calls' = calls + 1
    /\ \E method \in Methods, path \in Paths, idStr \in RequestIdStrs, panicAt \in PanicPoints :
         /\ path # "/user" => idStr = <<>>
         /\ method = "OPTIONS" => (idStr = <<>> /\ panicAt = "none")
         /\ LET c == Descend(Chain(variant), 1,
                             [q |-> NewRequest(method, path, idStr, panicAt, TRUE),
                              m |-> metrics, lim |-> limiter, ids |-> issued])
            IN  /\ SetReq(r, c.q)
                /\ metrics' = c.m
                /\ limiter' = c.lim
                /\ issued' = c.ids
    /\ UNCHANGED <<conn, server, last, variant, users, mu, now>>

\* the handler, or the layer that answered, returns up the chain and the
\* response is complete
Complete(r) ==
    /\ reqs[r].pc = "ret"
    /\ reqs[r].path \in Paths
    /\ LET c == Ascend(Chain(variant), reqs[r].depth,
                       [q |-> reqs[r], m |-> metrics, lim |-> limiter, ids |-> issued])
       IN  /\ SetReq(r, c.q)
           /\ metrics' = c.m
    /\ UNCHANGED <<conn, server, last, variant, users, mu, limiter, now, issued, calls>>

\* time passes: one tick
Tick ==
    /\ now < MaxTime
    /\ now' = now + 1
    /\ UNCHANGED <<conn, server, last, variant, users, mu, metrics, limiter, issued, reqs, calls>>

\* time passes: as long as it takes to refill one token
TokenTime ==
    /\ now + TicksPerToken <= MaxTime
    /\ now' = now + TicksPerToken
    /\ UNCHANGED <<conn, server, last, variant, users, mu, metrics, limiter, issued, reqs, calls>>

Init ==
    /\ variant \in Variants
    /\ users \in (IF variant = "mem" THEN {SeedUsers} ELSE {SeedUsers, <<>>})
    /\ mu = {}
    /\ metrics = InitMetrics(variant, users)
    /\ limiter = NewLimiter
    /\ now = 0
    /\ issued = 0
    /\ reqs = [r \in Slots |-> Idle]
    /\ calls = 0
    /\ server = Serving
    /\ last = NoCall
    /\ conn = {}

Next ==
    \/ \E r \in Slots :
         \/ Arrive(r)
         \/ ServiceHandler(r)
         \/ PanicOnEntry(r)
         \/ MetricsHandler(r)
         \/ NotFound(r)
         \/ Complete(r)
    \/ TokenTime

Spec == Init /\ [][Next]_vars

(***************************************************************************)
(* The rate-limit middleware alone around a handler that answers 200, the  *)
(* way its test assembles it; the requests are made one after the other.   *)
(***************************************************************************)
\* requests the test makes
MaxRequests == 4

\* the handler of the middleware tests: w.WriteHeader(http.StatusOK)
TestHandler(r) ==
    /\ reqs[r].pc = "TestHandler"
    /\ SetReq(r, Return(WriteHeader(reqs[r], 200)))
    /\ UNCHANGED <<conn, server, last, variant, users, mu, metrics, limiter, now, issued, calls>>

\* wrappedHandler.ServeHTTP(rr, req) with wrappedHandler the RateLimit
\* middleware around the test handler
RateLimitCall(r) ==
    /\ r = SlotOrder[1]
    /\ reqs[r].pc \in {"idle", "done"}
    /\ calls < MaxRequests
    /\ calls' = calls + 1
    /\ LET c == Descend(<<"RateLimit">>, 1,
                        [q |-> NewRequest("GET", "/test", <<>>, "none", TRUE),
                         m |-> metrics, lim |-> limiter, ids |-> issued])
       IN  /\ SetReq(r, IF c.q.reached THEN [c.q EXCEPT !.pc = "TestHandler"] ELSE c.q)
           /\ metrics' = c.m
           /\ limiter' = c.lim
    /\ UNCHANGED <<conn, server, last, variant, users, mu, now, issued>>

\* the call returns through the middleware
RateLimitReturn(r) ==
    /\ reqs[r].pc = "ret"
    /\ reqs[r].path = "/test"
    /\ SetReq(r, Ascend(<<"RateLimit">>, reqs[r].depth,
                        [q |-> reqs[r], m |-> metrics, lim |-> limiter, ids |-> issued]).q)
    /\ UNCHANGED <<conn, server, last, variant, users, mu, metrics, limiter, now, issued, calls>>

NextRateLimit ==
    \/ \E r \in Slots : RateLimitCall(r) \/ TestHandler(r) \/ RateLimitReturn(r)
    \/ Tick

SpecRateLimit == Init /\ [][NextRateLimit]_vars

(***************************************************************************)
(* The lifecycle of the process, from the entry of main to its exit, with  *)
(* requests in flight; what a request does is left to the specifications   *)
(* above.                                                                  *)
(***************************************************************************)
InitLifecycle ==
    /\ variant \in Variants
    /\ users = SeedUsers
    /\ mu = {}
    /\ metrics = InitMetrics(variant, users)
    /\ limiter = NewLimiter
    /\ now = 0
    /\ issued = 0
    /\ reqs = [r \in Slots |-> Idle]
    /\ calls = 0
    /\ server = Booting
    /\ last = NoCall
    /\ conn = {}

NextLifecycle ==
    \/ MainStart
    \/ MainSpawn
    \/ MainNotify
    \/ ListenerBind
    \/ Signal
    \/ MainReceive
    \/ ShutdownTick
    \/ ShutdownReturn
    \/ \E r \in Slots : ConnServe(r) \/ ConnDone(r)

SpecLifecycle == InitLifecycle /\ [][NextLifecycle]_vars

\* the main goroutine is scheduled and the timers of the runtime fire
SpecLifecycleFair ==
    /\ SpecLifecycle
    /\ WF_vars(MainReceive)
    /\ WF_vars(ShutdownTick)
    /\ WF_vars(ShutdownReturn)

(***************************************************************************)
(* The store calls of the database build.  main opens one *pgx.Conn and    *)
(* hands it to the one UserService; every request served calls the service *)
(* on its own goroutine, and a *pgx.Conn is not safe for concurrent use.   *)
(***************************************************************************)
\* the routes whose handlers call the store
StorePaths == {"/user", "/users", "/health"}

\* what a call on the connection can come to: its result, an error of the
\* driver, or, when another call ran on the connection at the same time,
\* whatever the unsynchronised use of the connection yields
StoreOutcomes(shared) == IF shared THEN {"ok", "fail", "garbled"} ELSE DBOutcomes

\* the handler of a request calls UserService.GetUser, ListUsers or
\* GetUsersCount, which issues its statement on the service's connection
\* with context.Background(); the calls already running on the connection
\* are disturbed as much as this one
StoreCall(r) ==
    /\ variant = "db"
    /\ reqs[r].pc = "idle"
    /\ \E path \in StorePaths, idStr \in RequestIdStrs \ {<<>>} :
         /\ path # "/user" => idStr = Itoa(1)
         /\ reqs' = [s \in Slots |->
                       IF s = r
                       THEN [NewRequest("GET", path, idStr, "none", TRUE)
                               EXCEPT !.pc = "store", !.ctx = "Background",
                                      !.fault = IF conn # {} THEN "shared" ELSE ""]
                       ELSE IF s \in conn THEN [reqs[s] EXCEPT !.fault = "shared"]
                       ELSE reqs[s]]
    /\ conn' = conn \cup {r}
    /\ UNCHANGED <<server, last, variant, users, mu, metrics, limiter, now, issued, calls>>

\* the call returns and the connection is free of it
StoreReturn(r) ==
    /\ reqs[r].pc = "store"
    /\ \E outcome \in StoreOutcomes(reqs[r].fault = "shared") :
         SetReq(r, [reqs[r] EXCEPT !.pc = "done", !.lookups = @ + 1, !.snap = users,
                                   !.fault = IF outcome = "ok" THEN "" ELSE outcome])
    /\ conn' = conn \ {r}
    /\ UNCHANGED <<server, last, variant, users, mu, metrics, limiter, now, issued, calls>>

InitStore ==
    /\ Init
    /\ variant = "db"

NextStore == \E r \in Slots : StoreCall(r) \/ StoreReturn(r)

SpecStore == InitStore /\ [][NextStore]_vars




(***************************************************************************)
(* Properties of the handlers.                                             *)
(***************************************************************************)
\* the finished GetUser / ListUsers / Health calls
Finished(path) == {r \in Slots : reqs[r].pc = "done" /\ reqs[r].path = path}

TextBody(msg) == <<[kind |-> "text", text |-> msg]>>

\* the id string is an integer literal whose value is the key i
NamesKey(idStr, i) ==
    /\ IsIntLiteral(idStr)
    /\ StripZeros(Unsigned(idStr)) = StripZeros(Itoa(i))
    /\ (idStr[1] = "-" => i = 0)

MissingMessages == {"missing id parameter", "id parameter is missing"}

InvalidMessages == {"invalid id parameter", "id parameter is invalid"}

\* C2: an absent or empty id is answered 400 with the missing-id message,
\* in the one step that enters GetUser, without a store lookup and without
\* a found / not_found lookup metric
C2_MissingID ==
    [][\A r \in Slots :
         (reqs[r].pc = "GetUser" /\ reqs[r].idStr = <<>> /\ reqs'[r] # reqs[r]) =>
            /\ reqs'[r].pc = "done"
            /\ reqs'[r].w.status = 400
            /\ \E m \in MissingMessages : reqs'[r].w.body = TextBody(m)
            /\ reqs'[r].lookups = 0
            /\ metrics'.userLookups = metrics.userLookups
            /\ mu' = mu]_vars

C2_Witness ==
    \E r \in Finished("/user") : reqs[r].idStr = <<>> /\ reqs[r].w.status = 400

\* C3: a non-empty id that is no integer literal is answered 400 with the
\* invalid-id message, in the one step that enters GetUser, without a store
\* lookup
C3_InvalidID ==
    [][\A r \in Slots :
         (/\ reqs[r].pc = "GetUser"
          /\ reqs[r].idStr # <<>>
          /\ ~IsIntLiteral(reqs[r].idStr)
          /\ reqs'[r] # reqs[r]) =>
            /\ reqs'[r].pc = "done"
            /\ reqs'[r].w.status = 400
            /\ \E m \in InvalidMessages : reqs'[r].w.body = TextBody(m)
            /\ reqs'[r].lookups = 0
            /\ metrics'.userLookups = metrics.userLookups
            /\ mu' = mu]_vars

C3_Witness ==
    \E r \in Finished("/user") : reqs[r].idStr = <<"1", ".">> /\ reqs[r].w.status = 400

\* the integer literal names no stored user
NamesNoUser(idStr, store) ==
    IsIntLiteral(idStr) /\ \A i \in DOMAIN store : ~NamesKey(idStr, i)

HoldsExactly(items, store) ==
    /\ Len(items) = Cardinality(DOMAIN store)
    /\ \A i \in DOMAIN store : \E k \in 1..Len(items) : items[k] = store[i]

\* C5 as stated: a successful ListUsers response carries an array holding
\* exactly the stored users and a total equal to its length
C5_Original ==
    \A r \in Finished("/users") :
        reqs[r].w.status = 200 =>
            /\ Len(reqs[r].w.body) = 1
            /\ ~reqs[r].w.body[1].users.null
            /\ HoldsExactly(reqs[r].w.body[1].users.items, reqs[r].snap)
            /\ reqs[r].w.body[1].total = Len(reqs[r].w.body[1].users.items)

\* C6 as stated: every Health response is the healthy one, with the count
\* of the store
C6_Original ==
    \A r \in Finished("/health") :
        reqs[r].w.body = <<[kind |-> "health", status |-> "healthy",
                            service |-> "user-service",
                            users_count |-> Cardinality(DOMAIN reqs[r].snap)]>>

\* C6 amended: every Health response sent with status 200 is the healthy
\* one, with the count of the store at the time it is served; the only
\* other response is the 500 of the database build when the count query
\* fails
C6_Health ==
    \A r \in Finished("/health") :
        IF reqs[r].fault = ""
        THEN /\ reqs[r].w.status = 200
             /\ reqs[r].w.body = <<[kind |-> "health", status |-> "healthy",
                                    service |-> "user-service",
                                    users_count |-> Cardinality(DOMAIN reqs[r].snap)]>>
        ELSE /\ variant = "db"
             /\ reqs[r].w.status = 500
             /\ reqs[r].w.body = TextBody("Failed to get users count")

\* a Health response served after an insert
C6_Witness ==
    \E r \in Finished("/health") :
        /\ reqs[r].w.status = 200
        /\ reqs[r].snap = users
        /\ reqs[r].w.body[1].users_count = 2
        /\ NextSerial(SeedUsers) \in DOMAIN users

(***************************************************************************)
(* Properties of the assembled server and of the middleware.               *)
(***************************************************************************)
\* the GetUser calls that ran their course
GetUserCalls ==
    {r \in Slots : /\ reqs[r].pc = "done" /\ reqs[r].path = "/user"
                   /\ reqs[r].method = "GET" /\ reqs[r].reached
                   /\ reqs[r].panicAt = "none"}

UserRecord(i, u) == [kind |-> "user", id |-> i, name |-> u.Name, email |-> u.Email]

Panicked == {r \in Slots : reqs[r].pc = "done" /\ reqs[r].panicked}

InternalServerError == [kind |-> "text", text |-> "internal server error"]

\* C8 as stated: every request whose handler panics, at whatever point, is
\* answered 500 "internal server error"
C8_Original ==
    \A r \in Panicked :
        /\ reqs[r].w.status = 500
        /\ reqs[r].w.body[Len(reqs[r].w.body)] = InternalServerError

\* C8 amended: every panic of a handler is recovered, the panic counter and
\* the error counter of ("panic", path) go up by exactly one, and the server
\* is left able to serve; the client receives 500 "internal server error"
\* when the handler had not yet sent its response header, and otherwise the
\* status already sent, with the text appended to the body
C8_Recovery ==
    /\ [](\A r \in Panicked : reqs[r].recovered /\ ~reqs[r].aborted /\ r \notin mu)
    /\ [][\A r \in Slots :
            (reqs[r].pc = "ret" /\ reqs[r].panicked /\ reqs'[r] # reqs[r]) =>
               /\ reqs'[r].pc = "done"
               /\ metrics'.panicRecoveries = metrics.panicRecoveries + 1
               /\ VecAt(metrics'.errorRate, <<"panic", reqs[r].path>>)
                    = VecAt(metrics.errorRate, <<"panic", reqs[r].path>>) + 1
               /\ IF ~reqs[r].w.wrote
                  THEN /\ reqs'[r].w.status = 500
                       /\ reqs'[r].w.body = <<InternalServerError>>
                  ELSE /\ reqs'[r].w.status = reqs[r].w.status
                       /\ reqs'[r].w.sent = reqs[r].w.sent
                       /\ reqs'[r].w.body = Append(reqs[r].w.body, InternalServerError)]_vars

\* a request answered 200 next to one whose handler panicked on entry
C8_Witness ==
    /\ reqs[SlotOrder[1]].pc = "done"
    /\ reqs[SlotOrder[1]].panicAt = "entry"
    /\ reqs[SlotOrder[1]].w.status = 500
    /\ metrics.panicRecoveries = 1
    /\ reqs[SlotOrder[2]].pc = "done"
    /\ reqs[SlotOrder[2]].reached
    /\ reqs[SlotOrder[2]].panicAt = "none"
    /\ reqs[SlotOrder[2]].w.status = 200

\* the OPTIONS requests, answered
Preflights == {r \in Slots : reqs[r].pc = "done" /\ reqs[r].method = "OPTIONS"}

\* 200, no body, the three CORS headers, no handler
PreflightAnswer(q) ==
    /\ q.w.status = 200
    /\ q.w.body = <<>>
    /\ q.w.sent.AllowOrigin = "*"
    /\ q.w.sent.AllowMethods = "GET, POST, PUT, DELETE, OPTIONS"
    /\ q.w.sent.AllowHeaders \in {"Content-Type, Authorization",
                                  "Content-Type, Authorization, X-Request-ID"}
    /\ ~q.reached

\* C9 as stated: every OPTIONS request, in any state of the server, is
\* answered 200 with no body and the three CORS headers, and reaches no
\* route handler
C9_Original == \A r \in Preflights : PreflightAnswer(reqs[r])

\* C9 as the code has it: every OPTIONS request the rate limiter admits is answered
\* 200 with no body and the three CORS headers; one the rate limiter
\* refuses is answered 429 without the CORS headers; neither reaches a
\* route handler
C9_Preflight ==
    \A r \in Preflights :
        IF ~reqs[r].rejected THEN PreflightAnswer(reqs[r])
        ELSE /\ reqs[r].w.status = 429
             /\ reqs[r].w.sent.AllowOrigin = ""
             /\ reqs[r].w.sent.AllowMethods = ""
             /\ reqs[r].w.sent.AllowHeaders = ""
             /\ ~reqs[r].reached

C9_Witness ==
    \E r \in Preflights :
        /\ reqs[r].path = "/users"
        /\ reqs[r].w.status = 200
        /\ reqs[r].w.sent.AllowOrigin = "*"

\* C10: from the full bucket and with no time passed, a request is refused
\* exactly when Burst requests came before it; a refused request is
\* answered 429 "rate limit exceeded", never reaches the inner handler and
\* raises the rate-limit-hit counter by exactly one, which no forwarded
\* request does; a request made once a token's worth of time has passed
\* since the bucket last gave a token is forwarded
C10_RateLimit ==
    /\ [](\A r \in Slots : reqs[r].rejected => ~reqs[r].reached)
    /\ [][\A r \in Slots :
            (reqs[r].pc \in {"idle", "done"} /\ reqs'[r].pc \notin {"idle", "done"}) =>
               /\ now = 0 => (reqs'[r].rejected <=> calls >= Burst)
               /\ (now - limiter.last >= TicksPerToken) => ~reqs'[r].rejected
               /\ IF reqs'[r].rejected
                  THEN /\ reqs'[r].w.status = 429
                       /\ reqs'[r].w.body = <<[kind |-> "text", text |-> "rate limit exceeded"]>>
                       /\ reqs'[r].pc = "ret"
                       /\ metrics'.rateLimitHits = metrics.rateLimitHits + 1
                  ELSE /\ reqs'[r].reached
                       /\ reqs'[r].pc = "TestHandler"
                       /\ ~reqs'[r].w.wrote
                       /\ metrics'.rateLimitHits = metrics.rateLimitHits]_vars

\* a request forwarded after one was refused
C10_Witness ==
    /\ metrics.rateLimitHits = 1
    /\ calls = Burst + 2
    /\ \E r \in Slots : reqs[r].pc = "done" /\ reqs[r].reached /\ reqs[r].w.status = 200

(***************************************************************************)
(* The order of the middleware layers.                                     *)
(***************************************************************************)
\* the layers from the outermost to the innermost as they are to be
\* traversed; the in-memory build has no request-id layer
TraversalOrder(v) ==
    IF v = "db"
    THEN <<"RequestID", "Recovery", "CORS", "RateLimit", "Metrics", "Logging">>
    ELSE <<"Recovery", "CORS", "RateLimit", "Metrics", "Logging">>

IsPrefix(s, t) == Len(s) <= Len(t) /\ \A i \in 1..Len(s) : s[i] = t[i]

\* C11: a request enters the layers in the order request id, recovery,
\* CORS, rate limit, metrics, logging, each layer before every layer
\* listed after it, and reaches the mux only after all of them
C11_Original ==
    \A r \in Slots :
      /\ IsPrefix(reqs[r].entered, TraversalOrder(variant))
      /\ reqs[r].reached => reqs[r].entered = TraversalOrder(variant)

(***************************************************************************)
(* Shutdown.                                                               *)
(***************************************************************************)
\* C12: once SIGINT or SIGTERM is received while the server is listening
\* the process eventually stops; shutdown returns before its deadline only
\* when no request is in flight, and a request that is still in flight
\* when the process stops has made the shutdown end at the deadline, logged
\* as forced and not as complete
C12_Shutdown ==
    /\ (Life(server) = "Listening" /\ server.quit \in Signals) ~> (Life(server) = "Stopped")
    /\ [][(server.main = "shutdown" /\ server'.main = "exited") =>
            /\ server'.log \in {"complete", "forced"}
            /\ server'.log = "complete" => InFlight = {}
            /\ server'.log = "forced" => (server.elapsed = ShutdownDeadline /\ server.busy)
            /\ InFlight # {} => (server'.log = "forced" /\ server.elapsed = ShutdownDeadline)]_vars

\* the process has stopped at the deadline with a request in flight
C12_Witness ==
    /\ server.path = <<"Starting", "Listening", "ShuttingDown", "Stopped">>
    /\ server.log = "forced"
    /\ server.elapsed = ShutdownDeadline
    /\ InFlight # {}

(***************************************************************************)
(* The lifecycle.                                                          *)
(***************************************************************************)
LifeStates == <<"Starting", "Listening", "ShuttingDown", "Stopped">>

\* the place of a lifecycle state in LifeStates
LifeRank(st) == CHOOSE i \in 1..Len(LifeStates) : LifeStates[i] = st

AddUserStep == last'.op = "AddUser" /\ calls' = calls + 1

\* a record with an empty name, an empty email or an email without "@"
FailsValidation(u) == u.Name = "" \/ u.Email = <<>> \/ ~ContainsAt(u.Email)

Count(store) == Cardinality(DOMAIN store)

\* C14: AddUser with a record that fails validation returns an error,
\* issues no insert to the store and leaves the records, their count and
\* the users_total gauge as they were
C14_InvalidUser ==
    [][(AddUserStep /\ FailsValidation(last'.arg)) =>
          /\ last'.err \in {"name cannot be empty", "email cannot be empty",
                            "email must contain @"}
          /\ ~last'.exec
          /\ users' = users
          /\ Count(users') = Count(users)
          /\ metrics'.usersTotal = metrics.usersTotal]_vars

\* AddUser has refused a record whose only fault is its email without "@"
C14_Witness ==
    /\ last.op = "AddUser"
    /\ last.arg.Name # ""
    /\ last.arg.Email # <<>>
    /\ ~ContainsAt(last.arg.Email)
    /\ last.err = "email must contain @"
    /\ ~last.exec

\* C15: a successful AddUser of a valid record raises the record count by
\* exactly one and the users_total gauge by one; an AddUser that returns
\* an error leaves both unchanged
C15_Original ==
    [][AddUserStep =>
          IF last'.err = ""
          THEN /\ Count(users') = Count(users) + 1
               /\ metrics'.usersTotal = metrics.usersTotal + 1
          ELSE /\ Count(users') = Count(users)
               /\ metrics'.usersTotal = metrics.usersTotal]_vars

(***************************************************************************)
(* Errors the client sees.                                                 *)
(***************************************************************************)
\* the finished requests for one user of the database build in which the
\* id was accepted and the store was asked
StoreLookups ==
    {r \in Slots : /\ variant = "db"
                   /\ reqs[r].pc = "done"
                   /\ reqs[r].path = "/user"
                   /\ reqs[r].lookups > 0}

\* C16: in the database build a store failure during GetUser is answered
\* 500, and 404 is the answer only when the lookup succeeded and found no
\* record for the id
C16_Original ==
    \A r \in StoreLookups :
      /\ reqs[r].fault = "fail" => reqs[r].w.status = 500
      /\ reqs[r].w.status = 404 =>
           (reqs[r].fault = "" /\ ~HasKey(reqs[r].snap, reqs[r].id))

\* the messages of the error classes, and the ServeMux's own for a path
\* that has no route
ClientMessages ==
    MissingMessages \cup InvalidMessages \cup
    {"user not found", "failed to list users", "failed to encode response",
     "Failed to get users count", "Failed to encode response",
     "rate limit exceeded", "internal server error", "404 page not found"}

\* C17: the body of every error response is one of the fixed messages of
\* the error classes and never the text of a store or driver error
C17_Original ==
    \A r \in Slots :
      (reqs[r].pc = "done" /\ reqs[r].w.status >= 400) =>
         \A i \in 1..Len(reqs[r].w.body) :
            /\ reqs[r].w.body[i].kind = "text"
            /\ reqs[r].w.body[i].text \in ClientMessages
            /\ reqs[r].w.body[i].text # DriverError

(***************************************************************************)
(* Request ids.                                                            *)
(***************************************************************************)
\* the requests the assembled server of the database build has answered
Answered == {r \in Slots : variant = "db" /\ reqs[r].pc = "done" /\ reqs[r].chain}

\* C18: every request gets its own request id: the response carries an
\* X-Request-ID header, no two requests get the same id, and the id in the
\* request context is the header's value
C18_Original ==
    /\ \A r \in Answered :
         /\ reqs[r].w.wrote => reqs[r].w.sent.XRequestID # 0
         /\ reqs[r].hdr.XRequestID # 0
         /\ reqs[r].ctxID = reqs[r].hdr.XRequestID
    /\ \A r1, r2 \in Answered :
         r1 # r2 => reqs[r1].hdr.XRequestID # reqs[r2].hdr.XRequestID

(***************************************************************************)
(* Requests that do not reach their handler.                               *)
(***************************************************************************)
\* the requests that have come into the assembled server
Arrived == {r \in Slots : reqs[r].pc # "idle" /\ reqs[r].chain}

\* the innermost layer the request has entered
LastEntered(q) == q.entered[Len(q.entered)]

\* C19 as stated: a request reaches its handler, or it is stopped before
\* the handler by exactly one of a rate-limit rejection and a recovered
\* panic
C19_Original ==
    \A r \in Arrived :
      \/ reqs[r].reached
      \/ reqs[r].rejected /\ ~reqs[r].panicked
      \/ ~reqs[r].rejected /\ reqs[r].panicked /\ (reqs[r].pc = "done" => reqs[r].recovered)

\* C19: a request passes every layer and reaches its handler, or it is
\* stopped before the handler by exactly one of two layers: RateLimit,
\* which rejects it with 429, or CORS, which answers an OPTIONS request
\* with 200; no other layer ends a request without forwarding it, and a
\* panic occurs only in a request that has reached its handler
C19_ShortCircuit ==
    \A r \in Arrived :
      /\ reqs[r].entered # <<>>
      /\ IF reqs[r].reached
         THEN /\ reqs[r].entered = Chain(variant)
              /\ ~reqs[r].rejected
         ELSE /\ LastEntered(reqs[r]) \in {"RateLimit", "CORS"}
              /\ LastEntered(reqs[r]) = "RateLimit" =>
                   (reqs[r].rejected /\ reqs[r].w.status = 429)
              /\ LastEntered(reqs[r]) = "CORS" =>
                   (~reqs[r].rejected /\ reqs[r].method = "OPTIONS" /\ reqs[r].w.status = 200)
              /\ ~reqs[r].panicked

\* one request was stopped by RateLimit, one by CORS
C19_Witness ==
    \E r1, r2 \in Arrived :
      /\ reqs[r1].pc = "done" /\ ~reqs[r1].reached /\ LastEntered(reqs[r1]) = "RateLimit"
      /\ reqs[r2].pc = "done" /\ ~reqs[r2].reached /\ LastEntered(reqs[r2]) = "CORS"

(***************************************************************************)
(* The lock of the in-memory store.                                        *)
(***************************************************************************)
\* C20: in the in-memory build every read of the user map, the lookup of
\* GetUser, the iteration of ListUsers and the count of Health, is made by
\* a request that holds the store lock
C20_Original ==
    [][variant = "mem" =>
         \A r \in Slots :
            reqs'[r].lookups > reqs[r].lookups => (r \in mu \/ r \in mu')]_vars

(***************************************************************************)
(* The database connection.                                                *)
(***************************************************************************)
\* C21: in the database build every store call runs in the context of the
\* request it serves, and no two requests served at the same time have a
\* call running on the same connection
C21_Original ==
    /\ \A r \in conn : reqs[r].ctx = "request"
    /\ Cardinality(conn) <= 1

(***************************************************************************)
(* The stored users.                                                       *)
(***************************************************************************)
\* C22: every user the store holds has a non-empty name and an email that
\* contains "@"
C22_StoredUsersValid ==
    \A i \in DOMAIN users : users[i].Name # "" /\ ContainsAt(users[i].Email)

\* a record was added, and a record that fails validation was then offered
C22_Witness ==
    /\ last.op = "AddUser"
    /\ FailsValidation(last.arg)
    /\ \E i \in DOMAIN users : users[i].Name = "Test User"

(***************************************************************************)
(* Store failures in ListUsers and Health.                                 *)
(***************************************************************************)
\* the finished requests of the database build for the list or the health
\* during which the store failed
StoreFailures ==
    {r \in Slots : /\ variant = "db"
                   /\ reqs[r].pc = "done"
                   /\ reqs[r].path \in {"/users", "/health"}
                   /\ reqs[r].fault # ""}

\* C23: in the database build a store failure while serving ListUsers or
\* Health is answered 500 with an error message and no success payload
C23_Original ==
    \A r \in StoreFailures :
      /\ reqs[r].w.status = 500
      /\ reqs[r].w.body \in {TextBody("failed to list users"),
                             TextBody("Failed to get users count")}

(***************************************************************************)
(* The access log.                                                         *)
(***************************************************************************)
\* C24: in the chain with the request-id layer, the access-log record of a
\* request carries the id the response returns in X-Request-ID
C24_Original ==
    \A r \in Answered :
      (reqs[r].logged # <<>> /\ reqs[r].hdr.XRequestID # 0) =>
         reqs[r].logged[4] = reqs[r].hdr.XRequestID

(***************************************************************************)
(* The in-flight gauge.                                                    *)
(***************************************************************************)
\* the requests that have entered the metrics layer and not left it
InsideMetrics ==
    {r \in Arrived : /\ reqs[r].pc # "done"
                     /\ \E i \in 1..Len(reqs[r].entered) : reqs[r].entered[i] = "Metrics"}

\* C25: the in-flight gauge is the number of requests inside the metrics
\* layer, whether they are rejected, panic or return; it is never negative
\* and is zero when no request is being processed
C25_InFlight ==
    /\ metrics.requestsInFlight = Cardinality(InsideMetrics)
    /\ metrics.requestsInFlight >= 0
    /\ (\A r \in Slots : reqs[r].pc \in {"idle", "done"}) => metrics.requestsInFlight = 0

\* a request that panicked and one that was rejected have left the layer
\* and nothing is in flight
C25_Witness ==
    /\ \E r \in Arrived : reqs[r].pc = "done" /\ reqs[r].panicked
    /\ \E r \in Arrived : reqs[r].pc = "done" /\ reqs[r].rejected
    /\ \A r \in Slots : reqs[r].pc = "done"
    /\ metrics.requestsInFlight = 0

(***************************************************************************)
(* The status the layers record.                                           *)
(***************************************************************************)
\* C26: the status code the metrics layer and the access-log layer record
\* for a request is the status code sent to the client
C26_Original ==
    \A r \in Arrived :
      (reqs[r].pc = "done" /\ reqs[r].w.wrote) =>
         /\ reqs[r].recorded # <<>> => reqs[r].recorded[3] = reqs[r].w.status
         /\ reqs[r].logged # <<>> => reqs[r].logged[3] = reqs[r].w.status

(***************************************************************************)
(* The lookup metric.                                                      *)
(***************************************************************************)
\* the step in which GetUser returns for the request of slot r
GetUserReturns(r) ==
    /\ reqs[r].pc \in {"GetUser", "GetUser_unlock"}
    /\ reqs'[r].pc \in {"ret", "done"}

FoundDelta == metrics'.userLookups.found - metrics.userLookups.found

NotFoundDelta == metrics'.userLookups.not_found - metrics.userLookups.not_found

\* C27 as stated: a call of GetUser that asks the store records exactly
\* one lookup metric, found if and only if it returns a user and not_found
\* whenever it returns an error
C27_Original ==
    [][\A r \in Slots :
         (GetUserReturns(r) /\ reqs'[r].lookups > 0) =>
            IF reqs'[r].exists /\ reqs'[r].fault = ""
            THEN FoundDelta = 1 /\ NotFoundDelta = 0
            ELSE FoundDelta = 0 /\ NotFoundDelta = 1]_vars

\* C27: a call of GetUser whose lookup completes records exactly one
\* lookup metric, found if and only if it returns a user and not_found if
\* and only if the store holds no record for the id; a call whose lookup
\* fails with a store error, or that is refused before the lookup, records
\* none, and no other step changes the lookup metric
C27_LookupMetric ==
    [][/\ \A r \in Slots :
            GetUserReturns(r) =>
               IF reqs'[r].lookups = 0 \/ reqs'[r].fault # ""
               THEN FoundDelta = 0 /\ NotFoundDelta = 0
               ELSE IF reqs'[r].exists
               THEN /\ FoundDelta = 1 /\ NotFoundDelta = 0
                    /\ HasKey(reqs'[r].snap, reqs'[r].id)
               ELSE /\ FoundDelta = 0 /\ NotFoundDelta = 1
                    /\ ~HasKey(reqs'[r].snap, reqs'[r].id)
       /\ (\A r \in Slots : ~GetUserReturns(r)) =>
            (FoundDelta = 0 /\ NotFoundDelta = 0)]_vars

\* a lookup has failed with a store error after one that found its user
C27_Witness ==
    /\ \E r \in Slots : /\ reqs[r].pc = "done" /\ reqs[r].path = "/user"
                        /\ reqs[r].lookups > 0 /\ reqs[r].fault = "fail"
    /\ metrics.userLookups.found = 1
    /\ metrics.userLookups.not_found = 0

(***************************************************************************)
(* The token bucket.                                                       *)
(***************************************************************************)
\* the requests the rate limiter has let pass
Admitted == {r \in Arrived : ~reqs[r].rejected}

\* C28: every request, whatever its path and method, passes the one rate
\* limiter, where it takes one token from the bucket or is rejected and
\* leaves the bucket as it was; the requests admitted never number more
\* than the burst size plus the tokens refilled since the start
C28_TokenBucket ==
    /\ [](/\ \A r \in Arrived :
               \E i \in 1..Len(reqs[r].entered) : reqs[r].entered[i] = "RateLimit"
          /\ Cardinality(Admitted) <= Burst + (now \div TicksPerToken))
    /\ [][\A r \in Slots :
            (reqs[r].pc = "idle" /\ reqs'[r].pc # "idle") =>
               IF reqs'[r].rejected
               THEN limiter' = limiter /\ TokensAt(limiter, now) < TicksPerToken
               ELSE /\ TokensAt(limiter, now) >= TicksPerToken
                    /\ limiter'.tokens = TokensAt(limiter, now) - TicksPerToken]_vars

\* a request for /metrics was rejected and an OPTIONS request took a token
C28_Witness ==
    /\ \E r \in Arrived : reqs[r].path = "/metrics" /\ reqs[r].rejected
    /\ \E r \in Admitted : reqs[r].method = "OPTIONS" /\ reqs[r].path = "/nope"

(***************************************************************************)
(* CORS headers on every response.                                         *)
(***************************************************************************)
\* the response went out with the three CORS headers
HasCORSHeaders(q) ==
    /\ q.w.sent.AllowOrigin = "*"
    /\ q.w.sent.AllowMethods = "GET, POST, PUT, DELETE, OPTIONS"
    /\ q.w.sent.AllowHeaders = AllowHeadersOf(variant)

\* C29: every response of the assembled server carries the three CORS
\* headers, whatever its status code
C29_Original ==
    \A r \in Arrived :
      (reqs[r].pc = "done" /\ reqs[r].w.wrote) => HasCORSHeaders(reqs[r])

(***************************************************************************)
(* Reading the rows of ListUsers.                                          *)
(***************************************************************************)
\* C30: in the database build ListUsers returns an error or all the rows
\* of the users table: when reading the result set fails part-way, in a
\* scan or while advancing to the next row, the rows read so far are not
\* returned as a success
C30_Original ==
    \A r \in Finished("/users") :
      (variant = "db" /\ reqs[r].lookups > 0) =>
         /\ reqs[r].fault \in {"scan_error", "next_error"} => reqs[r].w.status # 200
         /\ reqs[r].w.status = 200 => HoldsExactly(reqs[r].list, reqs[r].snap)

====
